---- MODULE Spec2Model ----
(***************************************************************************)
(* Model of switchTopology.py: the connection-group reducer                *)
(* (reduce_connection_groups), the colour assigner                         *)
(* (calculate_global_colors), the grid mapper (generate_ascii_grid), the   *)
(* chart renderer (apply_coloring, build_colored_grid_lines) and the short *)
(* analysis of process_and_output_charts (Part 4).                         *)
(*                                                                         *)
(* A Python str is a sequence of one-character strings; ESC names the      *)
(* escape character \033.  A Python dict is a sequence of <<key, value>>   *)
(* pairs in insertion order.  A Python set is a set.                       *)
(***************************************************************************)
EXTENDS Integers, Sequences, FiniteSets, TLC

VARIABLES
    pc,                         \* position in process_and_output_charts
    initial_groups,             \* combined_initial_groups, the argument of the reduction
    initial_state_groups,       \* the groups of the state files, the last of initial_groups
    working_groups,             \* reduce_connection_groups: unprocessed groups
    merged_groups,              \* reduce_connection_groups: finished accumulators
    current_group,              \* reduce_connection_groups: the accumulator
    i,                          \* reduce_connection_groups: scan index
    globally_reduced_groups,    \* the list the reduction returned
    state_pins_by_prefix,       \* prefix -> the pins the state file names
    pin_color_map,              \* calculate_global_colors
    external_color_map,         \* calculate_global_colors
    all_unique_external_items,  \* calculate_global_colors
    consolidated_pin_ops,       \* calculate_global_colors
    e2e_shorts_map,             \* Part 4
    isolated_p_groups,          \* Part 4
    printable_isolated_groups,  \* Part 4
    heap,                       \* list objects holding grid text lines
    grid_lines,                 \* prefix -> the base list object of that grid
    colored_lines,              \* prefix -> the list object of the last render
    final_lines_part2,          \* prefix -> the list object of the chart of Part 2
    final_lines_part2_5,        \* prefix -> the list object of the chart of Part 2.5
    final_lines_part3,          \* prefix -> the list object of the chart of Part 3
    render_ops,                 \* the operations handed to the last render
    renders,                    \* number of renders performed
    grid_args,                  \* generate_ascii_grid: <<prefix, C, R, cell_width>>
    generated                   \* generate_ascii_grid: the returned pair

vars == <<pc, initial_groups, initial_state_groups, working_groups, merged_groups, current_group, i,
          globally_reduced_groups, state_pins_by_prefix, pin_color_map,
          external_color_map, all_unique_external_items, consolidated_pin_ops, e2e_shorts_map,
          isolated_p_groups, printable_isolated_groups,
          heap, grid_lines, colored_lines, final_lines_part2, final_lines_part2_5,
          final_lines_part3,
          render_ops, renders, grid_args, generated>>

reduceVars == <<working_groups, merged_groups, current_group, i>>
colorVars == <<pin_color_map, external_color_map, all_unique_external_items,
               consolidated_pin_ops>>
shortVars == <<e2e_shorts_map, isolated_p_groups, printable_isolated_groups>>
renderVars == <<heap, grid_lines, colored_lines, final_lines_part2, final_lines_part2_5,
                final_lines_part3,
                render_ops, renders>>
gridVars == <<grid_args, generated>>

----------------------------------------------------------------------------
(* Bounds of the model.                                                    *)

MaxGroups == 3
MaxGroupLen == 2
MaxColorGroups == 2
MaxOps == 2
MaxRenders == 2
MaxWrap == 2
MaxGridCols == 4
MaxGridRows == 3
MaxCellWidth == 4

----------------------------------------------------------------------------
(* Characters and strings.                                                 *)

ESC == "ESC"
Digits == <<"0", "1", "2", "3", "4", "5", "6", "7", "8", "9">>
Uppers == <<"A", "B", "C", "D", "E", "F", "G", "H", "I", "J", "K", "L", "M",
            "N", "O", "P", "Q", "R", "S", "T", "U", "V", "W", "X", "Y", "Z">>
Lowers == <<"a", "b", "c", "d", "e", "f", "g", "h", "i", "j", "k", "l", "m",
            "n", "o", "p", "q", "r", "s", "t", "u", "v", "w", "x", "y", "z">>
\* The characters of the model in code-point order.
CharOrder == <<ESC, " ", "+", "-">> \o Digits \o <<":", ";">> \o Uppers
             \o <<"[">> \o Lowers \o <<"|">>

Range(s) == {s[k] : k \in DOMAIN s}
ToSet(s) == {s[k] : k \in DOMAIN s}
Min(a, b) == IF a < b THEN a ELSE b

IsDigit(c) == c \in Range(Digits)
IsUpper(c) == c \in Range(Uppers)
IsLower(c) == c \in Range(Lowers)
Ord(c) == CHOOSE k \in DOMAIN CharOrder : CharOrder[k] = c
DigitValue(c) == (CHOOSE k \in DOMAIN Digits : Digits[k] = c) - 1
UpperChar(c) == IF IsLower(c) THEN Uppers[CHOOSE k \in DOMAIN Lowers : Lowers[k] = c] ELSE c
LowerChar(c) == IF IsUpper(c) THEN Lowers[CHOOSE k \in DOMAIN Uppers : Uppers[k] = c] ELSE c
\* str.upper, str.lower
StrUpper(s) == [k \in DOMAIN s |-> UpperChar(s[k])]
StrLower(s) == [k \in DOMAIN s |-> LowerChar(s[k])]
\* a < b on str: lexicographic by code point, a proper prefix is smaller
StrLess(a, b) ==
    \E k \in 1..(Min(Len(a), Len(b)) + 1) :
        /\ \A j \in 1..(k - 1) : a[j] = b[j]
        /\ \/ k = Len(a) + 1 /\ k <= Len(b)
           \/ k <= Len(a) /\ k <= Len(b) /\ Ord(a[k]) < Ord(b[k])
\* int(s) for a string of decimal digits
RECURSIVE ParseInt(_)
ParseInt(s) ==
    IF s = <<>> THEN 0
    ELSE 10 * ParseInt(SubSeq(s, 1, Len(s) - 1)) + DigitValue(s[Len(s)])
\* str(n) for n >= 0
RECURSIVE IntToStr(_)
IntToStr(n) ==
    IF n < 10 THEN <<Digits[n + 1]>>
    ELSE IntToStr(n \div 10) \o <<Digits[(n % 10) + 1]>>
\* s.strip() (the model's only white space is the blank)
RECURSIVE Strip(_)
Strip(s) ==
    IF s # <<>> /\ s[1] = " " THEN Strip(Tail(s))
    ELSE IF s # <<>> /\ s[Len(s)] = " " THEN Strip(SubSeq(s, 1, Len(s) - 1))
    ELSE s
Repeat(c, n) == [k \in 1..n |-> c]
\* s.center(width): CPython pads left with pad/2 + (pad & width & 1)
Center(s, width) ==
    IF Len(s) >= width THEN s
    ELSE LET pad == width - Len(s)
             left == (pad \div 2) + (IF pad % 2 = 1 /\ width % 2 = 1 THEN 1 ELSE 0)
         IN Repeat(" ", left) \o s \o Repeat(" ", pad - left)

----------------------------------------------------------------------------
(* Configuration: the globals load_all_configs sets.                       *)

G == <<"G">>
T == <<"T">>
A1 == <<"A", "1">>
A2 == <<"A", "2">>
P1plus == <<"P", "1", "+">>
P2minus == <<"P", "2", "-">>
NC == <<"N", "C">>
A10 == <<"A", "1", "0">>
B1 == <<"B", "1">>
LowerB == <<"b">>
UpperC == <<"C">>
UpperB == <<"B">>

GRID_PREFIXES == <<"A", "B">>
GRID_DIMENSIONS == [p \in {"A", "B"} |-> IF p = "A" THEN <<2, 1>> ELSE <<1, 1>>]
E2E_PINS == <<G, T>>
GLOBAL_CELL_WIDTH == 8

----------------------------------------------------------------------------
(* Identifier classifier.                                                  *)

\* re.match(r'^([A-Z])(\d+)$', item)
PinShape(item) ==
    /\ Len(item) >= 2
    /\ IsUpper(item[1])
    /\ \A k \in 2..Len(item) : IsDigit(item[k])

is_pin(item) ==
    IF GRID_PREFIXES = <<>> THEN PinShape(item)
    ELSE PinShape(item) /\ item[1] \in Range(GRID_PREFIXES)

is_p_element(item) ==
    /\ Len(item) = 3
    /\ item[1] = "P"
    /\ IsDigit(item[2])
    /\ item[3] \in {"+", "-"}
    /\ item \notin Range(E2E_PINS)

is_external_element(item) == is_p_element(item) \/ item \in Range(E2E_PINS)

\* re.match(r'^[A-Z]:\d+x\d+$', item.strip(), re.IGNORECASE)
is_grid_definition(item) ==
    LET s == Strip(item) IN
    /\ Len(s) >= 5
    /\ IsUpper(s[1]) \/ IsLower(s[1])
    /\ s[2] = ":"
    /\ \E x \in 4..(Len(s) - 1) :
        /\ s[x] \in {"x", "X"}
        /\ \A k \in 3..(x - 1) : IsDigit(s[k])
        /\ \A k \in (x + 1)..Len(s) : IsDigit(s[k])

\* item.strip().lower().startswith('e2epins:')
is_e2e_pin_definition(item) ==
    LET s == StrLower(Strip(item))
        p == <<"e", "2", "e", "p", "i", "n", "s", ":">>
    IN Len(s) >= Len(p) /\ SubSeq(s, 1, Len(p)) = p

----------------------------------------------------------------------------
(* Group reducer: reduce_connection_groups.                                *)

RemoveAt(s, k) == SubSeq(s, 1, k - 1) \o SubSeq(s, k + 1, Len(s))

\* [set(g) for g in initial_groups if g]
InitialWorking(groups) ==
    LET ne == SelectSeq(groups, LAMBDA g : g # <<>>)
    IN [k \in DOMAIN ne |-> ToSet(ne[k])]

\* Overlaps with union in the place of intersection.
OverlapsUnion(a, b) == a \cup b # {}

\* Overlaps with issubset in the place of intersection.
OverlapsSubset(a, b) == a \subseteq b

\* current_group.intersection(working_groups[i])
Overlaps(a, b) == a \cap b # {}

\* ScanStep with the restart of the scan (i = 0) left out.
ScanStepNoRestart(st) ==
    IF st.current_group \cap st.working_groups[st.i + 1] # {}
    THEN [current_group |-> st.current_group \cup st.working_groups[st.i + 1],
          working_groups |-> RemoveAt(st.working_groups, st.i + 1),
          i |-> st.i]
    ELSE [st EXCEPT !.i = @ + 1]

\* ScanStep with the update of the accumulator left out.
ScanStepNoUpdate(st) ==
    IF st.current_group \cap st.working_groups[st.i + 1] # {}
    THEN [current_group |-> st.current_group,
          working_groups |-> RemoveAt(st.working_groups, st.i + 1),
          i |-> 0]
    ELSE [st EXCEPT !.i = @ + 1]

\* ScanStep with the removal of the absorbed group (del working_groups[i])
\* left out.
ScanStepNoRemove(st) ==
    IF st.current_group \cap st.working_groups[st.i + 1] # {}
    THEN [current_group |-> st.current_group \cup st.working_groups[st.i + 1],
          working_groups |-> st.working_groups,
          i |-> 0]
    ELSE [st EXCEPT !.i = @ + 1]

\* One pass through the body of the inner while loop, i < len(working_groups);
\* i counts from 0 as in the source, sequences from 1.
ScanStep(st) ==
    IF Overlaps(st.current_group, st.working_groups[st.i + 1])
    THEN [current_group |-> st.current_group \cup st.working_groups[st.i + 1],
          working_groups |-> RemoveAt(st.working_groups, st.i + 1),
          i |-> 0]
    ELSE [st EXCEPT !.i = @ + 1]

\* PinKeyLess on the text of the pins in the place of (x[0], int(x[1:])).
PinKeyLessAsText(a, b) == StrLess(a, b)

\* Keys of the two sorts of a merged group.
PinKeyLess(a, b) ==
    \/ Ord(a[1]) < Ord(b[1])
    \/ a[1] = b[1] /\ ParseInt(Tail(a)) < ParseInt(Tail(b))
UpperLess(a, b) == StrLess(StrUpper(a), StrUpper(b))

\* The items of S, each with its rank in the order of a sort key: the number
\* of items of a smaller key; two items have one rank iff they have one key.
PinRank(S) == {<<x, Cardinality({y \in S : PinKeyLess(y, x)})>> : x \in S}
UpperRank(S) == {<<x, Cardinality({y \in S : UpperLess(y, x)})>> : x \in S}
StrRank(S) == {<<x, Cardinality({y \in S : StrLess(y, x)})>> : x \in S}

\* sorted() of a set, given as <<item, rank>> pairs: every order that ascends
\* in the key; items of equal key come in the set's iteration order, which
\* the source does not fix.
SortedOrders(ranked) ==
    LET orders[U \in SUBSET ranked] ==
            IF U = {} THEN {<<>>}
            ELSE UNION { {<<m[1]>> \o t : t \in orders[U \ {m}]} :
                         m \in {x \in U : \A y \in U : x[2] <= y[2]} }
    IN orders[ranked]

GroupPins(group_set) == {item \in group_set : is_pin(item)}
GroupExternal(group_set) ==
    {item \in group_set :
        ~is_pin(item) /\ ~is_grid_definition(item) /\ ~is_e2e_pin_definition(item)}

\* external + pins
CanonicalOrders(group_set) ==
    {e \o p : e \in SortedOrders(UpperRank(GroupExternal(group_set))),
              p \in SortedOrders(PinRank(GroupPins(group_set)))}

\* The lists the loop over merged_groups can build.
RECURSIVE CanonicalLists(_)
CanonicalLists(merged) ==
    IF merged = <<>> THEN {<<>>}
    ELSE {<<g>> \o rest : g \in CanonicalOrders(Head(merged)),
                          rest \in CanonicalLists(Tail(merged))}

\* Priority class of a group: 0 with a declared terminal, 1 with another
\* non-pin member, 2 pins only.
group_priority_key(group) ==
    IF \E k \in DOMAIN group : group[k] \in Range(E2E_PINS) THEN 0
    ELSE IF \E k \in DOMAIN group : ~is_pin(group[k]) THEN 1
    ELSE 2

sort_key(group) ==
    IF group = <<>> THEN <<3, <<"z">>>>
    ELSE <<group_priority_key(group), group[1]>>

SortKeyLess(k1, k2) ==
    \/ k1[1] < k2[1]
    \/ k1[1] = k2[1] /\ StrLess(k1[2], k2[2])

\* list.sort(key=...) and sorted(key=...) of a list: stable. key[n] is the
\* rank of the key of s[n]; items of one rank keep their order.
StableSort(s, key) ==
    LET ins[n \in 0..Len(s)] ==
            IF n = 0 THEN [items |-> <<>>, keys |-> <<>>]
            ELSE LET prev == ins[n - 1]
                     kn == key[n]
                     at == Cardinality({k \in DOMAIN prev.keys : prev.keys[k] <= kn})
                 IN [items |-> SubSeq(prev.items, 1, at) \o <<s[n]>>
                                   \o SubSeq(prev.items, at + 1, n - 1),
                     keys |-> SubSeq(prev.keys, 1, at) \o <<kn>>
                                  \o SubSeq(prev.keys, at + 1, n - 1)]
    IN ins[Len(s)].items

GroupSortLess(g1, g2) == SortKeyLess(sort_key(g1), sort_key(g2))
SortKeyRank(l) ==
    [n \in DOMAIN l |-> Cardinality({m \in DOMAIN l : GroupSortLess(l[m], l[n])})]

\* final_reduced_groups.sort(key=sort_key) over each list the canonical loop
\* can build.
FinalReducedGroups(merged) ==
    {StableSort(l, SortKeyRank(l)) : l \in CanonicalLists(merged)}

\* The inner while loop run to its end from st.
RECURSIVE ScanToEnd(_)
ScanToEnd(st) ==
    IF st.i < Len(st.working_groups) THEN ScanToEnd(ScanStep(st)) ELSE st

\* The outer while loop run to its end: the final merged_groups.
RECURSIVE MergeLoop(_, _)
MergeLoop(working, merged) ==
    IF working = <<>> THEN merged
    ELSE LET st == ScanToEnd([current_group |-> Head(working),
                              working_groups |-> Tail(working), i |-> 0])
         IN MergeLoop(st.working_groups, Append(merged, st.current_group))

\* The lists a call can return (one, unless two members of a group have the
\* same sort key).
reduce_connection_groups(groups) ==
    IF groups = <<>> THEN {<<>>}
    ELSE FinalReducedGroups(MergeLoop(InitialWorking(groups), <<>>))

----------------------------------------------------------------------------
(* Grid coordinate mapper: generate_ascii_grid.                            *)

\* row_str after the first n cells of row r (rows and cells count from 0);
\* dot_number runs row-major from 1.
RowPrefix(prefix, C, r, cell_width, n) ==
    LET row[k \in 0..n] ==
            IF k = 0 THEN <<"|">>
            ELSE row[k - 1]
                 \o Center(<<prefix>> \o IntToStr(r * C + k), cell_width)
                 \o <<"|">>
    IN row[n]

BorderLine(C, cell_width) ==
    LET b[k \in 0..C] ==
            IF k = 0 THEN <<"+">> ELSE b[k - 1] \o Repeat("-", cell_width) \o <<"+">>
    IN b[C]

\* grid_lines: the border, every row with a border after it but for the
\* last row, and the border again (twice the border when there is no row)
GridLines(prefix, C, R, cell_width) ==
    IF R = 0 THEN <<BorderLine(C, cell_width), BorderLine(C, cell_width)>>
    ELSE [n \in 1..(2 * R + 1) |->
            IF n % 2 = 1 THEN BorderLine(C, cell_width)
            ELSE RowPrefix(prefix, C, (n \div 2) - 1, cell_width, C)]

\* CoordMap with the closing "|" of a cell left out of row_str: a cell takes
\* cell_width columns.
CoordMapNoPipe(prefix, C, R, cell_width) ==
    LET cells == {<<r, k>> : r \in 0..(R - 1), k \in 0..(C - 1)}
        name(c) == <<prefix>> \o IntToStr(c[1] * C + c[2] + 1)
    IN [item \in {name(c) : c \in cells} |->
            LET c == CHOOSE x \in cells : name(x) = item
            IN <<2 * c[1] + 1, 1 + c[2] * cell_width + cell_width>>]

\* CoordMap with row_str left as it is at the start of the row.
CoordMapRowNotExtended(prefix, C, R, cell_width) ==
    LET cells == {<<r, k>> : r \in 0..(R - 1), k \in 0..(C - 1)}
        name(c) == <<prefix>> \o IntToStr(c[1] * C + c[2] + 1)
    IN [item \in {name(c) : c \in cells} |->
            <<2 * (CHOOSE c \in cells : name(c) = item)[1] + 1, 1 + cell_width>>]

\* coord_map: cell name -> <<line_index, closing_pipe_index>>, both from 0
CoordMap(prefix, C, R, cell_width) ==
    LET cells == {<<r, k>> : r \in 0..(R - 1), k \in 0..(C - 1)}
        name(c) == <<prefix>> \o IntToStr(c[1] * C + c[2] + 1)
        coord(c) == <<2 * c[1] + 1,
                      Len(RowPrefix(prefix, C, c[1], cell_width, c[2])) + cell_width>>
    IN [item \in {name(c) : c \in cells} |->
            coord(CHOOSE c \in cells : name(c) = item)]

generate_ascii_grid(prefix, C, R, cell_width) ==
    [grid_lines |-> GridLines(prefix, C, R, cell_width),
     coord_map |-> CoordMap(prefix, C, R, cell_width)]

\* map_coords of process_and_output_charts
map_coords ==
    [p \in Range(GRID_PREFIXES) |->
        generate_ascii_grid(p, GRID_DIMENSIONS[p][1], GRID_DIMENSIONS[p][2],
                            GLOBAL_CELL_WIDTH).coord_map]

----------------------------------------------------------------------------
(* Colour assigner: calculate_global_colors.                               *)

Code(s) == <<ESC, "[">> \o s \o <<"m">>
COLORS == <<
    Code(<<"4", "1">>), Code(<<"4", "2">>), Code(<<"4", "4">>),
    Code(<<"4", "5">>), Code(<<"4", "6">>),
    Code(<<"4", "8", ";", "5", ";", "2", "0", "8">>),
    Code(<<"4", "8", ";", "5", ";", "5", "2">>),
    Code(<<"4", "8", ";", "5", ";", "2", "2">>),
    Code(<<"4", "8", ";", "5", ";", "1", "2", "9">>),
    Code(<<"4", "8", ";", "5", ";", "1", "7", "7">>),
    Code(<<"4", "8", ";", "5", ";", "1", "9">>),
    Code(<<"4", "8", ";", "5", ";", "2", "8">>),
    Code(<<"4", "8", ";", "5", ";", "1", "3", "5">>),
    Code(<<"4", "8", ";", "5", ";", "2", "0", "2">>),
    Code(<<"4", "8", ";", "5", ";", "3", "6">>) >>
TEXT_BOLD_ITALIC_STATE == Code(<<"1">>) \o Code(<<"3">>)
PIN_TERMINATOR == Code(<<"2", "2">>) \o Code(<<"2", "3">>) \o Code(<<"4", "9">>)
NEUTRAL_BACKGROUND == Code(<<"4", "0">>)

\* dict operations; a dict is a sequence of <<key, value>> in insertion order
DictKeys(d) == {d[n][1] : n \in DOMAIN d}
DictHas(d, k) == k \in DictKeys(d)
DictGet(d, k) == d[CHOOSE n \in DOMAIN d : d[n][1] = k][2]
DictGetOr(d, k, default) == IF DictHas(d, k) THEN DictGet(d, k) ELSE default
DictSet(d, k, v) ==
    IF DictHas(d, k) THEN [n \in DOMAIN d |-> IF d[n][1] = k THEN <<k, v>> ELSE d[n]]
    ELSE Append(d, <<k, v>>)

\* GroupToColor with the position in the priority-sorted list in the place of
\* the position in the input list.
GroupToColorBySortedPosition(groups, group) ==
    LET sorted == StableSort(groups, [n \in DOMAIN groups |-> group_priority_key(groups[n])])
        last == CHOOSE n \in DOMAIN sorted :
                    /\ sorted[n] = group
                    /\ \A m \in DOMAIN sorted : sorted[m] = group => m <= n
    IN COLORS[((last - 1) % Len(COLORS)) + 1]

\* group_to_color[tuple(group)]: the entry the last equal group wrote
GroupToColor(groups, group) ==
    LET last == CHOOSE n \in DOMAIN groups :
                    /\ groups[n] = group
                    /\ \A m \in DOMAIN groups : groups[m] = group => m <= n
    IN COLORS[((last - 1) % Len(COLORS)) + 1]

PriorityRank(groups) == [n \in DOMAIN groups |-> group_priority_key(groups[n])]

\* the body of `for item in group` for one item of a group of colour `color`
ColorItem(acc, item, color) ==
    IF is_pin(item)
    THEN IF ~DictHas(acc.pin_color_map, item)
         THEN [acc EXCEPT !.pin_color_map = DictSet(@, item, color)]
         ELSE acc
    ELSE IF ~is_grid_definition(item) /\ ~is_e2e_pin_definition(item)
         THEN [acc EXCEPT !.external_color_map = DictSet(@, item, color),
                          !.all_unique_external_items = @ \cup {item}]
         ELSE acc

\* the <<item, colour>> pairs in the order the two loops visit them
RECURSIVE VisitOrder(_, _)
VisitOrder(groups, sorted_groups) ==
    IF sorted_groups = <<>> THEN <<>>
    ELSE LET group == Head(sorted_groups)
         IN [k \in DOMAIN group |-> <<group[k], GroupToColor(groups, group)>>]
            \o VisitOrder(groups, Tail(sorted_groups))

\* the two operations of one entry of pin_color_map, or none
PinOps(item, color, coords, state_pins, cell_width) ==
    LET prefix == item[1] IN
    IF prefix \in DOMAIN coords /\ item \in DOMAIN coords[prefix]
    THEN LET r == coords[prefix][item][1]
             c_end == coords[prefix][item][2]
             c_start == c_end - cell_width
             own == IF prefix \in DOMAIN state_pins THEN state_pins[prefix] ELSE {}
             text_format_code == IF item \in own THEN TEXT_BOLD_ITALIC_STATE ELSE <<>>
         IN << <<r, c_end, PIN_TERMINATOR, prefix>>,
               <<r, c_start, color \o text_format_code, prefix>> >>
    ELSE <<>>

calculate_global_colors(groups, coords, state_pins, cell_width) ==
    LET sorted_groups == StableSort(groups, PriorityRank(groups))
        visit == VisitOrder(groups, sorted_groups)
        acc[n \in 0..Len(visit)] ==
            IF n = 0 THEN [pin_color_map |-> <<>>, external_color_map |-> <<>>,
                           all_unique_external_items |-> {}]
            ELSE ColorItem(acc[n - 1], visit[n][1], visit[n][2])
        maps == acc[Len(visit)]
        ops[n \in 0..Len(maps.pin_color_map)] ==
            IF n = 0 THEN <<>>
            ELSE ops[n - 1] \o PinOps(maps.pin_color_map[n][1], maps.pin_color_map[n][2],
                                      coords, state_pins, cell_width)
    IN [pin_color_map |-> maps.pin_color_map,
        external_color_map |-> maps.external_color_map,
        consolidated_pin_ops |-> ops[Len(maps.pin_color_map)],
        all_unique_external_items |-> maps.all_unique_external_items]

\* calculate_state_only_colors of Part 2.5: the groups are visited in the
\* order of the list, without the priority sort
calculate_state_only_colors(groups, pin_coords_map, state_pins_map, cell_width) ==
    LET visit == VisitOrder(groups, groups)
        acc[n \in 0..Len(visit)] ==
            IF n = 0 THEN [pin_color_map |-> <<>>, external_color_map |-> <<>>,
                           all_unique_external_items |-> {}]
            ELSE ColorItem(acc[n - 1], visit[n][1], visit[n][2])
        maps == acc[Len(visit)]
        ops[n \in 0..Len(maps.pin_color_map)] ==
            IF n = 0 THEN <<>>
            ELSE ops[n - 1] \o PinOps(maps.pin_color_map[n][1], maps.pin_color_map[n][2],
                                      pin_coords_map, state_pins_map, cell_width)
    IN [pin_color_map |-> maps.pin_color_map,
        external_color_map |-> maps.external_color_map,
        consolidated_pin_ops |-> ops[Len(maps.pin_color_map)],
        all_unique_external_items |-> maps.all_unique_external_items]

----------------------------------------------------------------------------
(* Short analysis: Part 4 of process_and_output_charts.                    *)

\* AllNonPinItems without the test not is_pin(item).
AllNonPinItemsWithPins(group) ==
    {item \in ToSet(group) : ~is_grid_definition(item)}

\* all_non_pin_items, p_elements_in_group, present_e2e_pins of one group
AllNonPinItems(group) ==
    {item \in ToSet(group) : ~is_pin(item) /\ ~is_grid_definition(item)}
PElementsInGroup(group) == {item \in AllNonPinItems(group) : is_p_element(item)}
PresentE2EPins(group) == {pin \in Range(E2E_PINS) : pin \in ToSet(group)}

\* ShortedAfter without the test item != e2e_pin.
ShortedAfterWithSelf(shorted, e2e_pin, group, ext_colors) ==
    LET new == {item \in {x \in ToSet(group) : ~is_pin(x) /\ ~is_grid_definition(x)} :
                    item \notin DOMAIN shorted}
    IN [item \in DOMAIN shorted \cup new |->
            IF item \in DOMAIN shorted THEN shorted[item]
            ELSE IF \E n \in DOMAIN ext_colors : ext_colors[n][1] = item
                 THEN ext_colors[CHOOSE n \in DOMAIN ext_colors : ext_colors[n][1] = item][2]
                 ELSE NEUTRAL_BACKGROUND]

\* the shorted-to dict of e2e_pin after the group: an entry is written once
ShortedAfter(shorted, e2e_pin, group, ext_colors) ==
    LET new == {item \in AllNonPinItems(group) :
                    item # e2e_pin /\ item \notin DOMAIN shorted}
    IN [item \in DOMAIN shorted \cup new |->
            IF item \in DOMAIN shorted THEN shorted[item]
            ELSE DictGetOr(ext_colors, item, NEUTRAL_BACKGROUND)]

IsIsolatedPGroup(group) ==
    /\ Cardinality(PElementsInGroup(group)) = Cardinality(AllNonPinItems(group))
    /\ PresentE2EPins(group) = {}

\* IsReportableCandidate with len(...) >= 1 in the place of len(...) > 1.
IsReportableCandidateOffByOne(group) ==
    IsIsolatedPGroup(group) /\ Cardinality(PElementsInGroup(group)) >= 1

\* is_isolated_p_group and len(p_elements_in_group) > 1
IsReportableCandidate(group) ==
    IsIsolatedPGroup(group) /\ Cardinality(PElementsInGroup(group)) > 1

\* the body of `for group in globally_reduced_groups`
ShortStep(acc, group, ext_colors) ==
    [e2e_shorts_map |->
        [pin \in DOMAIN acc.e2e_shorts_map |->
            IF pin \in PresentE2EPins(group)
            THEN ShortedAfter(acc.e2e_shorts_map[pin], pin, group, ext_colors)
            ELSE acc.e2e_shorts_map[pin]],
     isolated_p_groups |->
        IF IsReportableCandidate(group)
        THEN Append(acc.isolated_p_groups, PElementsInGroup(group))
        ELSE acc.isolated_p_groups]

EmptyFunction == [x \in {} |-> x]

ShortAnalysis(groups, ext_colors) ==
    LET acc[n \in 0..Len(groups)] ==
            IF n = 0 THEN [e2e_shorts_map |-> [pin \in Range(E2E_PINS) |-> EmptyFunction],
                           isolated_p_groups |-> <<>>]
            ELSE ShortStep(acc[n - 1], groups[n], ext_colors)
    IN acc[Len(groups)]

\* all_e2e_targets
AllE2ETargets(shorts) == UNION {DOMAIN shorts[pin] : pin \in DOMAIN shorts}

IsTrulyIsolated(group, targets) == \A item \in group : item \notin targets

\* printable_isolated_groups: every list the loop can build (sorted() of a set)
RECURSIVE PrintableIsolated(_, _)
PrintableIsolated(isolated, targets) ==
    IF isolated = <<>> THEN {<<>>}
    ELSE IF IsTrulyIsolated(Head(isolated), targets)
         THEN {<<g>> \o rest : g \in SortedOrders(UpperRank(Head(isolated))),
                               rest \in PrintableIsolated(Tail(isolated), targets)}
         ELSE PrintableIsolated(Tail(isolated), targets)

----------------------------------------------------------------------------
(* Chart renderer: apply_coloring, build_colored_grid_lines and the render *)
(* of an individual chart in Part 1.  A list of lines is an object of the  *)
(* heap; a reference is its index.                                         *)

DEFAULT_MAX_R == 4

\* max_R of load_all_configs
MaxR ==
    LET rs == {DEFAULT_MAX_R} \cup {GRID_DIMENSIONS[q][2] : q \in Range(GRID_PREFIXES)}
    IN CHOOSE r \in rs : \A x \in rs : x <= r

\* the lines of a grid, padded with blank lines to the height 2 * max_R + 1
PaddedGridLines(prefix) ==
    LET lines == generate_ascii_grid(prefix, GRID_DIMENSIONS[prefix][1],
                                     GRID_DIMENSIONS[prefix][2],
                                     GLOBAL_CELL_WIDTH).grid_lines
        expected_height == 2 * MaxR + 1
        blank_line == Repeat(" ", IF lines = <<>> THEN 0 ELSE Len(lines[1]))
    IN IF Len(lines) < expected_height
       THEN lines \o [k \in 1..(expected_height - Len(lines)) |-> blank_line]
       ELSE lines

\* CloneList returning the object it was given.
CloneListAlias(h, ref) == [heap |-> h, ref |-> ref]

\* list(lines): a new object with the same items
CloneList(h, ref) == [heap |-> Append(h, h[ref]), ref |-> Len(h) + 1]

\* list.insert(idx, x); idx counts from 0
ListInsert(l, idx, x) ==
    LET n == Len(l)
        at == IF idx < 0 THEN (IF idx + n < 0 THEN 0 ELSE idx + n)
              ELSE IF idx > n THEN n ELSE idx
    IN SubSeq(l, 1, at) \o <<x>> \o SubSeq(l, at + 1, n)

\* "".join(l)
RECURSIVE Join(_)
Join(l) == IF l = <<>> THEN <<>> ELSE Head(l) \o Join(Tail(l))

\* SortedLineOps in ascending order of the column.
SortedLineOpsAscending(line_ops) ==
    StableSort(line_ops, [n \in DOMAIN line_ops |-> line_ops[n][1]])

\* sorted(ops_by_line[r], key=lambda x: x[0], reverse=True)
SortedLineOps(line_ops) ==
    StableSort(line_ops, [n \in DOMAIN line_ops |-> 0 - line_ops[n][1]])

\* one line after the inserts of its operations <<c_index, code>>
ColoredLine(line, line_ops) ==
    LET todo == SortedLineOps(line_ops)
        line_list[n \in 0..Len(todo)] ==
            IF n = 0 THEN [k \in DOMAIN line |-> <<line[k]>>]
            ELSE ListInsert(line_list[n - 1], todo[n][1], todo[n][2])
    IN Join(line_list[Len(todo)])

\* ops_by_line[r], r from 0
OpsByLine(ops, r) ==
    LET on == SelectSeq(ops, LAMBDA o : o[1] = r)
    IN [k \in DOMAIN on |-> <<on[k][2], on[k][3]>>]

\* sorted(ops_by_line.keys())
RECURSIVE SortedRows(_)
SortedRows(rows) ==
    IF rows = {} THEN <<>>
    ELSE LET first == CHOOSE r \in rows : \A x \in rows : r <= x
         IN <<first>> \o SortedRows(rows \ {first})

\* lines[r] raises IndexError: r is no index of a list of n items, counted
\* from the start (0 .. n - 1) or from the end (-1 .. -n)
RowOutOfRange(r, n) == r < 0 - n \/ r >= n

\* the exception apply_coloring(lines, ops) ends with; "" when it returns
ApplyColoringRaises(h, ref, ops) ==
    IF \E k \in DOMAIN ops : RowOutOfRange(ops[k][1], Len(h[ref]))
    THEN "IndexError" ELSE ""

\* apply_coloring(lines, ops): writes the lines of the object `ref`, row by
\* row in ascending order of r; a negative r counts from the end of the list.
\* At the first r that is no index the call raises: the rows before it are
\* written, the rows after it are not.  The result is the heap after the
\* call, with the exception when the call raises.
apply_coloring(h, ref, ops) ==
    LET n == Len(h[ref])
        rows == SortedRows({ops[k][1] : k \in DOMAIN ops})
        bad == {k \in DOMAIN rows : RowOutOfRange(rows[k], n)}
        written == IF bad = {} THEN Len(rows)
                   ELSE (CHOOSE k \in bad : \A j \in bad : k <= j) - 1
        at(r) == IF r < 0 THEN r + n + 1 ELSE r + 1
        lines[k \in 0..written] ==
            IF k = 0 THEN h[ref]
            ELSE [lines[k - 1] EXCEPT
                    ![at(rows[k])] = ColoredLine(@, OpsByLine(ops, rows[k]))]
        result(after) == IF bad = {} THEN after
                         ELSE [exception |-> "IndexError", heap |-> after]
    IN result([h EXCEPT ![ref] = lines[written]])

\* ops_by_prefix[prefix], color_ops_by_prefix[prefix]
OpsByPrefix(ops, prefix) ==
    LET of == SelectSeq(ops, LAMBDA o : o[4] = prefix)
    IN [k \in DOMAIN of |-> <<of[k][1], of[k][2], of[k][3]>>]

\* the exception build_colored_grid_lines ends with; "" when it returns:
\* ops_by_prefix[prefix] of a prefix that is no grid, then lines[r]
BuildRaises(h, base_grid_lines, consolidated_ops) ==
    IF \E k \in DOMAIN consolidated_ops :
            consolidated_ops[k][4] \notin Range(GRID_PREFIXES)
    THEN "KeyError"
    ELSE IF \E n \in DOMAIN GRID_PREFIXES :
                ApplyColoringRaises(h, base_grid_lines[GRID_PREFIXES[n]],
                                    OpsByPrefix(consolidated_ops, GRID_PREFIXES[n])) # ""
         THEN "IndexError" ELSE ""

\* build_colored_grid_lines: every grid is cloned, then every clone coloured
build_colored_grid_lines(h, base_grid_lines, consolidated_ops) ==
    LET cloned[n \in 0..Len(GRID_PREFIXES)] ==
            IF n = 0 THEN [heap |-> h, colored_lines |-> EmptyFunction]
            ELSE LET c == CloneList(cloned[n - 1].heap, base_grid_lines[GRID_PREFIXES[n]])
                 IN [heap |-> c.heap,
                     colored_lines |->
                        [q \in DOMAIN cloned[n - 1].colored_lines \cup {GRID_PREFIXES[n]} |->
                            IF q = GRID_PREFIXES[n] THEN c.ref
                            ELSE cloned[n - 1].colored_lines[q]]]
        all == cloned[Len(GRID_PREFIXES)]
        colored[n \in 0..Len(GRID_PREFIXES)] ==
            IF n = 0 THEN all.heap
            ELSE apply_coloring(colored[n - 1], all.colored_lines[GRID_PREFIXES[n]],
                                OpsByPrefix(consolidated_ops, GRID_PREFIXES[n]))
    IN IF BuildRaises(h, base_grid_lines, consolidated_ops) # ""
       THEN BuildRaises(h, base_grid_lines, consolidated_ops)
       ELSE [heap |-> colored[Len(GRID_PREFIXES)], colored_lines |-> all.colored_lines]

\* Part 1: for prefix in GRID_PREFIXES: clone the grid, colour the clone
RenderIndividualChart(h, base_grid_lines, ops) ==
    LET done[n \in 0..Len(GRID_PREFIXES)] ==
            IF n = 0 THEN [heap |-> h, colored_lines |-> EmptyFunction]
            ELSE LET c == CloneList(done[n - 1].heap, base_grid_lines[GRID_PREFIXES[n]])
                 IN [heap |-> apply_coloring(c.heap, c.ref,
                                             OpsByPrefix(ops, GRID_PREFIXES[n])),
                     colored_lines |->
                        [q \in DOMAIN done[n - 1].colored_lines \cup {GRID_PREFIXES[n]} |->
                            IF q = GRID_PREFIXES[n] THEN c.ref
                            ELSE done[n - 1].colored_lines[q]]]
    IN IF \E n \in DOMAIN GRID_PREFIXES :
            ApplyColoringRaises(h, base_grid_lines[GRID_PREFIXES[n]],
                                OpsByPrefix(ops, GRID_PREFIXES[n])) # ""
       THEN "IndexError"
       ELSE done[Len(GRID_PREFIXES)]

\* is_only_grid_def and len(line_data) > 0
IsOnlyGridDef(line_data) ==
    /\ line_data # <<>>
    /\ \A k \in DOMAIN line_data : is_grid_definition(line_data[k])

\* the groups of charting_groups_part1 that Part 1 does not skip
ChartedGroups(groups) == SelectSeq(groups, LAMBDA g : ~IsOnlyGridDef(g))

\* color = COLORS[color_index % len(COLORS)] of the n-th charted group
ChartColor(n) == COLORS[((n - 1) % Len(COLORS)) + 1]

\* color_ops_by_prefix of one group, the prefix written in each operation
GroupColorOps(line_data, color, state_pins) ==
    LET ops[n \in 0..Len(line_data)] ==
            IF n = 0 THEN <<>>
            ELSE IF is_pin(line_data[n])
                 THEN ops[n - 1] \o PinOps(line_data[n], color, map_coords, state_pins,
                                           GLOBAL_CELL_WIDTH)
                 ELSE ops[n - 1]
    IN ops[Len(line_data)]

\* consolidated_pin_ops_part2 after the loop of Part 1: the operations of
\* every pin, written with the colour of the first group that holds it
Part2Ops(groups, state_pins) ==
    LET charted == ChartedGroups(groups)
        item_step(acc, item, color) ==
            IF is_pin(item) /\ item \in DOMAIN map_coords[item[1]]
                            /\ item \notin acc.pin_color_map_part2
            THEN [pin_color_map_part2 |-> acc.pin_color_map_part2 \cup {item},
                  ops |-> acc.ops \o PinOps(item, color, map_coords, state_pins,
                                            GLOBAL_CELL_WIDTH)]
            ELSE acc
        group_step(acc, g, color) ==
            LET in[m \in 0..Len(g)] ==
                    IF m = 0 THEN acc ELSE item_step(in[m - 1], g[m], color)
            IN in[Len(g)]
        all[n \in 0..Len(charted)] ==
            IF n = 0 THEN [pin_color_map_part2 |-> {}, ops |-> <<>>]
            ELSE group_step(all[n - 1], charted[n], ChartColor(n))
    IN all[Len(charted)].ops

\* Parts 1 to 3: one individual chart per charted group of
\* charting_groups_part1, each on new clones (the clones of the chart before
\* are dropped when the names are bound again), then the consolidated charts
\* of Part 2, of Part 2.5 when the state files give a group, and of Part 3
OutputCharts(h, base_grid_lines, charting_groups_part1, state_only_reduced_groups, state_pins, ops_part3) ==
    LET charted == ChartedGroups(charting_groups_part1)
        bases == Len(GRID_PREFIXES)
        part1[n \in 0..Len(charted)] ==
            IF n = 0 THEN [heap |-> h, colored_lines |-> <<>>]
            ELSE RenderIndividualChart(SubSeq(part1[n - 1].heap, 1, bases), base_grid_lines,
                                       GroupColorOps(charted[n], ChartColor(n), state_pins))
        ops_part2_5 ==
            calculate_state_only_colors(state_only_reduced_groups, map_coords, state_pins,
                                        GLOBAL_CELL_WIDTH).consolidated_pin_ops
        \* the chart of one part, on the heap the charts before it left
        part2(done) == build_colored_grid_lines(done.heap, base_grid_lines,
                                                Part2Ops(charting_groups_part1, state_pins))
        part2_5(done) == IF state_only_reduced_groups = <<>>
                         THEN [heap |-> done.heap, colored_lines |-> <<>>]
                         ELSE build_colored_grid_lines(done.heap, base_grid_lines, ops_part2_5)
        part3(done) == build_colored_grid_lines(done.heap, base_grid_lines, ops_part3)
        after3(last, p2, p2_5, p3) ==
            [heap |-> p3.heap,
             colored_lines |-> last.colored_lines,
             final_lines_part2 |-> p2.colored_lines,
             final_lines_part2_5 |-> p2_5.colored_lines,
             final_lines_part3 |-> p3.colored_lines]
        after2_5(last, p2, p2_5) == after3(last, p2, p2_5, part3(p2_5))
        after2(last, p2) == after2_5(last, p2, part2_5(p2))
        after1(last) == after2(last, part2(last))
    IN after1(part1[Len(charted)])

----------------------------------------------------------------------------
(* process_and_output_charts from step 4: the global reduction, the colour *)
(* assignment of step 6 and the short summary of Part 4.                   *)

PoolA == {A1, P1plus, P2minus, G}
PoolB == {G, T, NC}

RECURSIVE SeqsUpTo(_, _)
SeqsUpTo(S, n) ==
    IF n = 0 THEN {<<>>}
    ELSE LET shorter == SeqsUpTo(S, n - 1)
         IN shorter \cup {Append(s, x) : s \in {t \in shorter : Len(t) = n - 1}, x \in S}

\* One list per non-empty set of at most MaxGroupLen tokens of the pool (the
\* loaders append a group only `if group`): the reduction reads an input
\* group only through set(g).
InputGroups(pool) ==
    UNION {SortedOrders(StrRank(S)) :
           S \in {s \in SUBSET pool : s # {} /\ Cardinality(s) <= MaxGroupLen}}

InputLists == SeqsUpTo(InputGroups(PoolA), MaxGroups) \cup SeqsUpTo(InputGroups(PoolB), MaxGroups)

\* the identifiers of data.csv and of the state file of grid A in the runs
\* with state files
DataPool == {A1, G}
StatePool == {A1, A2, G}

\* load_state_data_as_groups: a line with an identifier gives the group
\* external + pins
StateGroups(pool) ==
    UNION {CanonicalOrders(S) :
           S \in {s \in SUBSET pool : s # {} /\ Cardinality(s) <= MaxGroupLen}}

\* load_state_pin_set: the identifiers of the groups that are a letter and
\* digits, by prefix
PinsByPrefix(groups) ==
    [p \in Range(GRID_PREFIXES) |->
        {item \in UNION {ToSet(groups[k]) : k \in DOMAIN groups} :
            PinShape(item) /\ item[1] = p}]

\* The state file of a grid names pins of that grid, and
\* load_state_data_as_groups puts each of them in a group of the input.
StatePinChoices(groups) ==
    LET pins == PinsByPrefix(groups)
    IN {sp \in [Range(GRID_PREFIXES) -> SUBSET (UNION {pins[p] : p \in DOMAIN pins})] :
            \A p \in DOMAIN sp : sp[p] \subseteq pins[p]}

NoGrid ==
    /\ grid_args = <<>>
    /\ generated = <<>>

InitRest ==
    /\ NoGrid
    /\ working_groups = <<>>
    /\ merged_groups = <<>>
    /\ current_group = {}
    /\ i = 0
    /\ pin_color_map = <<>>
    /\ external_color_map = <<>>
    /\ all_unique_external_items = {}
    /\ consolidated_pin_ops = <<>>
    /\ e2e_shorts_map = <<>>
    /\ isolated_p_groups = <<>>
    /\ printable_isolated_groups = <<>>

\* before step 2: no list of lines exists
NoRender ==
    /\ heap = <<>>
    /\ grid_lines = <<>>
    /\ colored_lines = <<>>
    /\ final_lines_part2 = <<>>
    /\ final_lines_part2_5 = <<>>
    /\ final_lines_part3 = <<>>
    /\ render_ops = <<>>
    /\ renders = 0

\* step 2: grid_lines[prefix] = lines, one list object per grid; no chart yet
GridsBuilt ==
    /\ heap = [n \in DOMAIN GRID_PREFIXES |-> PaddedGridLines(GRID_PREFIXES[n])]
    /\ grid_lines = [q \in Range(GRID_PREFIXES) |->
                        CHOOSE n \in DOMAIN GRID_PREFIXES : GRID_PREFIXES[n] = q]
    /\ colored_lines = <<>>
    /\ final_lines_part2 = <<>>
    /\ final_lines_part2_5 = <<>>
    /\ final_lines_part3 = <<>>
    /\ render_ops = <<>>
    /\ renders = 0

\* initial_data_groups: the groups of combined_initial_groups before the
\* groups of the state files
initial_data_groups ==
    SubSeq(initial_groups, 1, Len(initial_groups) - Len(initial_state_groups))

\* step 3: the lines of data.csv with empty state files, or the lines of
\* data.csv followed by the groups of the state file of grid A; the state
\* pins are the pins the state file names
Init ==
    /\ pc = "loaded"
    /\ \/ /\ initial_groups \in InputLists
          /\ initial_state_groups = <<>>
       \/ \E data \in SeqsUpTo(InputGroups(DataPool), MaxColorGroups),
             state \in SeqsUpTo(StateGroups(StatePool), MaxColorGroups) :
            /\ initial_groups = data \o state
            /\ initial_state_groups = state
    /\ state_pins_by_prefix = PinsByPrefix(initial_state_groups)
    /\ globally_reduced_groups = <<>>
    /\ InitRest
    /\ GridsBuilt

\* if not combined_initial_groups: print(...); return
NoData ==
    /\ pc = "loaded"
    /\ initial_groups = <<>>
    /\ pc' = "returned"
    /\ UNCHANGED <<gridVars, initial_groups, initial_state_groups, reduceVars, globally_reduced_groups,
                   state_pins_by_prefix, colorVars, shortVars, renderVars>>

\* reduce_connection_groups(combined_initial_groups), up to the outer while
ReduceEnter ==
    /\ pc = "loaded"
    /\ initial_groups # <<>>
    /\ working_groups' = InitialWorking(initial_groups)
    /\ merged_groups' = <<>>
    /\ pc' = "outer"
    /\ UNCHANGED <<gridVars, initial_groups, initial_state_groups, current_group, i, globally_reduced_groups,
                   state_pins_by_prefix, colorVars, shortVars, renderVars>>

\* while working_groups: current_group = working_groups.pop(0); i = 0
OuterPop ==
    /\ pc = "outer"
    /\ working_groups # <<>>
    /\ current_group' = Head(working_groups)
    /\ working_groups' = Tail(working_groups)
    /\ i' = 0
    /\ pc' = "inner"
    /\ UNCHANGED <<gridVars, initial_groups, initial_state_groups, merged_groups, globally_reduced_groups,
                   state_pins_by_prefix, colorVars, shortVars, renderVars>>

\* while i < len(working_groups): absorb and restart, or step on
InnerScan ==
    /\ pc = "inner"
    /\ i < Len(working_groups)
    /\ LET st == ScanStep([current_group |-> current_group,
                           working_groups |-> working_groups, i |-> i])
       IN /\ current_group' = st.current_group
          /\ working_groups' = st.working_groups
          /\ i' = st.i
    /\ UNCHANGED <<gridVars, pc, initial_groups, initial_state_groups, merged_groups, globally_reduced_groups,
                   state_pins_by_prefix, colorVars, shortVars, renderVars>>

\* merged_groups.append(current_group)
InnerDone ==
    /\ pc = "inner"
    /\ i >= Len(working_groups)
    /\ merged_groups' = Append(merged_groups, current_group)
    /\ pc' = "outer"
    /\ UNCHANGED <<gridVars, initial_groups, initial_state_groups, working_groups, current_group, i,
                   globally_reduced_groups, state_pins_by_prefix, colorVars,
                   shortVars, renderVars>>

\* the canonical order of every merged group, the sort of the list, return
ReduceReturn ==
    /\ pc = "outer"
    /\ working_groups = <<>>
    /\ globally_reduced_groups' \in FinalReducedGroups(merged_groups)
    /\ pc' = "reduced"
    /\ UNCHANGED <<gridVars, initial_groups, initial_state_groups, reduceVars, state_pins_by_prefix, colorVars,
                   shortVars, renderVars>>

\* step 6: calculate_global_colors(globally_reduced_groups, ...)
GlobalColors ==
    /\ pc = "reduced"
    /\ LET res == calculate_global_colors(globally_reduced_groups, map_coords,
                                          state_pins_by_prefix, GLOBAL_CELL_WIDTH)
       IN /\ pin_color_map' = res.pin_color_map
          /\ external_color_map' = res.external_color_map
          /\ consolidated_pin_ops' = res.consolidated_pin_ops
          /\ all_unique_external_items' = res.all_unique_external_items
    /\ pc' = "colored"
    /\ UNCHANGED <<gridVars, initial_groups, initial_state_groups, reduceVars, globally_reduced_groups,
                   state_pins_by_prefix, shortVars, renderVars>>

\* step 5: reduce_connection_groups(initial_data_groups); with no state
\* group it is the call of step 4 again, on the same groups
ChartingGroupsPart1 ==
    IF initial_state_groups = <<>> THEN {globally_reduced_groups}
    ELSE reduce_connection_groups(initial_data_groups)

\* Parts 1, 2, 2.5 and 3: the charts
Charts ==
    /\ pc = "colored"
    /\ \E charting_groups_part1 \in ChartingGroupsPart1,
          state_only_reduced_groups \in reduce_connection_groups(initial_state_groups) :
        LET bind(res) ==
                /\ heap' = res.heap
                /\ colored_lines' = res.colored_lines
                /\ final_lines_part2' = res.final_lines_part2
                /\ final_lines_part2_5' = res.final_lines_part2_5
                /\ final_lines_part3' = res.final_lines_part3
        IN bind(OutputCharts(heap, grid_lines, charting_groups_part1,
                             state_only_reduced_groups, state_pins_by_prefix,
                             consolidated_pin_ops))
    /\ pc' = "charted"
    /\ UNCHANGED <<gridVars, initial_groups, initial_state_groups, reduceVars,
                   globally_reduced_groups, state_pins_by_prefix, colorVars, shortVars,
                   grid_lines, render_ops, renders>>

\* Part 4: the short summary
ShortSummary ==
    /\ pc = "charted"
    /\ LET res == ShortAnalysis(globally_reduced_groups, external_color_map)
       IN /\ e2e_shorts_map' = res.e2e_shorts_map
          /\ isolated_p_groups' = res.isolated_p_groups
          /\ printable_isolated_groups' \in
                PrintableIsolated(res.isolated_p_groups, AllE2ETargets(res.e2e_shorts_map))
    /\ pc' = "done"
    /\ UNCHANGED <<gridVars, initial_groups, initial_state_groups, reduceVars, globally_reduced_groups,
                   state_pins_by_prefix, colorVars, renderVars>>

Next ==
    \/ NoData
    \/ ReduceEnter
    \/ OuterPop
    \/ InnerScan
    \/ InnerDone
    \/ ReduceReturn
    \/ GlobalColors
    \/ Charts
    \/ ShortSummary

Spec == Init /\ [][Next]_vars

----------------------------------------------------------------------------
(* The colour assigner on any list of groups.                              *)

ColorPool == {A1, A2, P1plus, G}

ColorInputGroups ==
    UNION {CanonicalOrders(S) :
           S \in {x \in SUBSET ColorPool : x # {} /\ Cardinality(x) <= MaxGroupLen}}

\* Lists as long as the palette and longer: group k is the pin A<k>, but for
\* one group, the first or the last, that may be a terminal or a transient
\* element instead.
PinName(k) == <<"A">> \o IntToStr(k)
LongColorLists ==
    {[k \in 1..n |-> IF k = at THEN <<ext>> ELSE <<PinName(k)>>] :
        n \in Len(COLORS)..(Len(COLORS) + MaxWrap),
        at \in {0, 1, Len(COLORS) + MaxWrap},
        ext \in {G, P1plus}}

InitColors ==
    /\ pc = "reduced"
    /\ initial_groups = <<>>
    /\ initial_state_groups = <<>>
    /\ \/ /\ globally_reduced_groups \in SeqsUpTo(ColorInputGroups, MaxColorGroups)
          /\ state_pins_by_prefix \in StatePinChoices(globally_reduced_groups)
       \/ /\ globally_reduced_groups \in LongColorLists
          /\ state_pins_by_prefix = [p \in Range(GRID_PREFIXES) |-> {}]
    /\ InitRest
    /\ GridsBuilt

NextColors == GlobalColors

SpecColors == InitColors /\ [][NextColors]_vars

----------------------------------------------------------------------------
(* The charts of process_and_output_charts, Parts 1 to 3 in the order of   *)
(* the code, each chart on any list of operations.                         *)

\* the operations lines 580-594 build for the pin A1 in the first colour of
\* the palette: the terminator at c_end, the colour at c_start, plain or
\* with the code of a pin the state file names
RenderOps ==
    {PinOps(A1, COLORS[1], map_coords, state_pins, GLOBAL_CELL_WIDTH)[k] :
        k \in 1..2,
        state_pins \in {[p \in Range(GRID_PREFIXES) |-> {}], PinsByPrefix(<<<<A1>>>>)}}
\* a pin gives its operations once: no operation is twice in a list
OpsLists ==
    {ops \in SeqsUpTo(RenderOps, MaxOps) :
        \A j, k \in DOMAIN ops : j # k => ops[j] # ops[k]}

\* before Part 1: one list object per grid; the state file of grid A is
\* empty or names the pin A1
InitRender ==
    /\ pc = "charts"
    /\ GridsBuilt
    /\ initial_state_groups \in {<<>>, <<<<A1>>>>}
    /\ initial_groups = initial_state_groups
    /\ globally_reduced_groups = <<>>
    /\ state_pins_by_prefix = PinsByPrefix(initial_state_groups)
    /\ InitRest

\* Part 1, lines 623-628, for the operations of one group: the names are
\* bound to new clones, the clones of the chart before are dropped
IndividualChart ==
    /\ pc = "charts"
    /\ renders < MaxRenders
    /\ \E ops \in OpsLists :
        LET bind(res) ==
                /\ heap' = res.heap
                /\ colored_lines' = res.colored_lines
        IN /\ bind(RenderIndividualChart(SubSeq(heap, 1, Len(GRID_PREFIXES)),
                                         grid_lines, ops))
           /\ render_ops' = ops
    /\ renders' = renders + 1
    /\ pc' = "rendered"
    /\ UNCHANGED <<gridVars, initial_groups, initial_state_groups, reduceVars,
                   globally_reduced_groups, state_pins_by_prefix, colorVars, shortVars,
                   grid_lines, final_lines_part2, final_lines_part2_5, final_lines_part3>>

\* lines 642-645: the rows are printed; the names stay bound
PrintChart ==
    /\ pc = "rendered"
    /\ pc' = "charts"
    /\ UNCHANGED <<gridVars, initial_groups, initial_state_groups, reduceVars,
                   globally_reduced_groups, state_pins_by_prefix, colorVars, shortVars,
                   renderVars>>

\* Part 2, after the loop of Part 1 whatever number of charts it rendered:
\* final_lines_part2 = build_colored_grid_lines(grid_lines, ops)
ConsolidatedChart ==
    /\ pc = "charts"
    /\ \E ops \in OpsLists :
        LET bind(res) ==
                /\ heap' = res.heap
                /\ final_lines_part2' = res.colored_lines
        IN /\ bind(build_colored_grid_lines(heap, grid_lines, ops))
           /\ render_ops' = ops
    /\ renders' = renders + 1
    /\ pc' = "part2"
    /\ UNCHANGED <<gridVars, initial_groups, initial_state_groups, reduceVars,
                   globally_reduced_groups, state_pins_by_prefix, colorVars, shortVars,
                   grid_lines, colored_lines, final_lines_part2_5, final_lines_part3>>

\* Part 2.5, when the state files give a group (the reduction of a list
\* with a group is no empty list):
\* final_lines_part2_5 = build_colored_grid_lines(grid_lines, ops)
StateChart ==
    /\ pc = "part2"
    /\ initial_state_groups # <<>>
    /\ \E ops \in OpsLists :
        LET bind(res) ==
                /\ heap' = res.heap
                /\ final_lines_part2_5' = res.colored_lines
        IN /\ bind(build_colored_grid_lines(heap, grid_lines, ops))
           /\ render_ops' = ops
    /\ renders' = renders + 1
    /\ pc' = "part2_5"
    /\ UNCHANGED <<gridVars, initial_groups, initial_state_groups, reduceVars,
                   globally_reduced_groups, state_pins_by_prefix, colorVars, shortVars,
                   grid_lines, colored_lines, final_lines_part2, final_lines_part3>>

\* Part 3: final_lines_part3 = build_colored_grid_lines(grid_lines, ops)
GlobalChart ==
    /\ \/ pc = "part2_5"
       \/ pc = "part2" /\ initial_state_groups = <<>>
    /\ \E ops \in OpsLists :
        LET bind(res) ==
                /\ heap' = res.heap
                /\ final_lines_part3' = res.colored_lines
        IN /\ bind(build_colored_grid_lines(heap, grid_lines, ops))
           /\ render_ops' = ops
    /\ renders' = renders + 1
    /\ pc' = "part3"
    /\ UNCHANGED <<gridVars, initial_groups, initial_state_groups, reduceVars,
                   globally_reduced_groups, state_pins_by_prefix, colorVars, shortVars,
                   grid_lines, colored_lines, final_lines_part2, final_lines_part2_5>>

NextRender ==
    \/ IndividualChart
    \/ PrintChart
    \/ ConsolidatedChart
    \/ StateChart
    \/ GlobalChart

SpecRender == InitRender /\ [][NextRender]_vars

----------------------------------------------------------------------------
(* The same run on identifiers whose order depends on the sort keys: pins  *)
(* of two grids and of one- and two-digit numbers, names in both cases.    *)

OrderPoolPins == {A2, A10, B1}
OrderPoolMixed == {LowerB, UpperC, A10}
OrderPoolNames == {LowerB, UpperC, G, T}

OrderInputLists ==
    SeqsUpTo(InputGroups(OrderPoolPins), MaxGroups)
    \cup SeqsUpTo(InputGroups(OrderPoolMixed), MaxGroups)
    \cup SeqsUpTo(InputGroups(OrderPoolNames), MaxGroups)

InitOrder ==
    /\ pc = "loaded"
    /\ initial_groups \in OrderInputLists
    /\ initial_state_groups = <<>>
    /\ state_pins_by_prefix = [p \in Range(GRID_PREFIXES) |-> {}]
    /\ globally_reduced_groups = <<>>
    /\ InitRest
    /\ GridsBuilt

SpecOrder == InitOrder /\ [][Next]_vars

----------------------------------------------------------------------------
(* The same run as a sequential program that always takes its next step,   *)
(* on every list over three identifiers.                                   *)

LoopPool == {A1, G, T}

InitLoop ==
    /\ pc = "loaded"
    /\ initial_groups \in SeqsUpTo(InputGroups(LoopPool), MaxGroups)
    /\ initial_state_groups = <<>>
    /\ state_pins_by_prefix = [p \in Range(GRID_PREFIXES) |-> {}]
    /\ globally_reduced_groups = <<>>
    /\ InitRest
    /\ GridsBuilt

\* the steps of reduce_connection_groups from the outer while to the return
ReduceLoop == OuterPop \/ InnerScan \/ InnerDone \/ ReduceReturn

\* The interpreter runs the statements of the call one after the other: a
\* step of the call that can be taken is taken.
SpecLoop == InitLoop /\ [][Next]_vars /\ WF_vars(ReduceLoop)

----------------------------------------------------------------------------
(* The same run on transient elements and declared terminals only, so that *)
(* one input holds both a shorted terminal and a group of transient        *)
(* elements apart from it.                                                 *)

ShortPool == {P1plus, P2minus, G, T}

InitShort ==
    /\ pc = "loaded"
    /\ initial_groups \in SeqsUpTo(InputGroups(ShortPool), MaxColorGroups)
    /\ initial_state_groups = <<>>
    /\ state_pins_by_prefix = [p \in Range(GRID_PREFIXES) |-> {}]
    /\ globally_reduced_groups = <<>>
    /\ InitRest
    /\ GridsBuilt

SpecShort == InitShort /\ [][Next]_vars

----------------------------------------------------------------------------
(* The same run on names that differ only in case, which the sort keys of  *)
(* the reducer do not tell apart.                                          *)

PermPool == {LowerB, UpperB, UpperC}

InitPerm ==
    /\ pc = "loaded"
    /\ initial_groups \in SeqsUpTo(InputGroups(PermPool), MaxGroups)
    /\ initial_state_groups = <<>>
    /\ state_pins_by_prefix = [p \in Range(GRID_PREFIXES) |-> {}]
    /\ globally_reduced_groups = <<>>
    /\ InitRest
    /\ GridsBuilt

SpecPerm == InitPerm /\ [][Next]_vars

----------------------------------------------------------------------------
(* generate_ascii_grid on any prefix, size and cell width.                 *)

GridPrefixes == {"A", "B"}

InitGrid ==
    /\ pc = "grid"
    /\ grid_args \in {<<q, C, R, w>> : q \in GridPrefixes, C \in 1..MaxGridCols,
                                       R \in 1..MaxGridRows, w \in 1..MaxCellWidth}
    /\ generated = <<>>
    /\ initial_groups = <<>>
    /\ initial_state_groups = <<>>
    /\ globally_reduced_groups = <<>>
    /\ state_pins_by_prefix = <<>>
    /\ working_groups = <<>>
    /\ merged_groups = <<>>
    /\ current_group = {}
    /\ i = 0
    /\ pin_color_map = <<>>
    /\ external_color_map = <<>>
    /\ all_unique_external_items = {}
    /\ consolidated_pin_ops = <<>>
    /\ e2e_shorts_map = <<>>
    /\ isolated_p_groups = <<>>
    /\ printable_isolated_groups = <<>>
    /\ NoRender

\* lines, coords = generate_ascii_grid(prefix, C, R, cell_width)
GenerateGrid ==
    /\ pc = "grid"
    /\ generated' = generate_ascii_grid(grid_args[1], grid_args[2], grid_args[3],
                                        grid_args[4])
    /\ pc' = "mapped"
    /\ UNCHANGED <<grid_args, initial_groups, initial_state_groups, reduceVars, globally_reduced_groups,
                   state_pins_by_prefix, colorVars, shortVars, renderVars>>

NextGrid == GenerateGrid

SpecGrid == InitGrid /\ [][NextGrid]_vars

----------------------------------------------------------------------------
(* Properties of the reduction and of the short summary.                   *)

Returned == pc \in {"reduced", "colored", "charted", "done"}
InputSets == {ToSet(initial_groups[k]) : k \in DOMAIN initial_groups} \ {{}}
InputIds == UNION InputSets
ReducedSets == {ToSet(globally_reduced_groups[k]) : k \in DOMAIN globally_reduced_groups}
ReducedIds == UNION ReducedSets

\* The identifiers linked to those of S by a chain of input groups in which
\* consecutive groups share an identifier.
RECURSIVE Linked(_)
Linked(S) ==
    LET next == S \cup UNION {g \in InputSets : g \cap S # {}}
    IN IF next = S THEN S ELSE Linked(next)
Components == {Linked({x}) : x \in InputIds}

\* C1: the returned groups partition the input identifiers: their union is
\* the union of the input groups, no identifier is in two returned groups
\* and none is twice in one.
C1_Partition ==
    Returned =>
        /\ UNION ReducedSets = InputIds
        /\ \A j, k \in DOMAIN globally_reduced_groups :
               j # k => ToSet(globally_reduced_groups[j])
                        \cap ToSet(globally_reduced_groups[k]) = {}
        /\ \A k \in DOMAIN globally_reduced_groups :
               Cardinality(ToSet(globally_reduced_groups[k]))
                   = Len(globally_reduced_groups[k])

\* A reduction that absorbed a group and returned two groups.
C1_Witness ==
    /\ pc = "reduced"
    /\ Len(globally_reduced_groups) = 2
    /\ Len(InitialWorking(initial_groups)) = 3
    /\ Cardinality(InputIds) = 4

\* C2: when input group g1 shares an identifier with g2 and g2 shares one
\* with g3, the identifiers of the three are in one returned group, whatever
\* the positions of the three in the input list.
C2_Transitive ==
    Returned =>
        \A a, b, c \in DOMAIN initial_groups :
            ( /\ ToSet(initial_groups[a]) \cap ToSet(initial_groups[b]) # {}
              /\ ToSet(initial_groups[b]) \cap ToSet(initial_groups[c]) # {} )
            => \E k \in DOMAIN globally_reduced_groups :
                   ToSet(initial_groups[a]) \cup ToSet(initial_groups[b])
                       \cup ToSet(initial_groups[c])
                   \subseteq ToSet(globally_reduced_groups[k])

\* A chain g1 - g2 - g3 with g1 and g3 disjoint and the middle group last in
\* the list, so that it is met only after g3 was scanned past.
C2_Witness ==
    /\ pc = "reduced"
    /\ Len(initial_groups) = 3
    /\ ToSet(initial_groups[1]) \cap ToSet(initial_groups[3]) # {}
    /\ ToSet(initial_groups[3]) \cap ToSet(initial_groups[2]) # {}
    /\ ToSet(initial_groups[1]) \cap ToSet(initial_groups[2]) = {}
    /\ Len(globally_reduced_groups) = 1

\* C3: the returned groups are exactly the connected components of the
\* hypergraph of the non-empty input groups: two identifiers are in one
\* returned group only if a chain of overlapping input groups links them.
C3_Components ==
    Returned =>
        /\ ReducedSets = Components
        /\ \A k \in DOMAIN globally_reduced_groups :
               \A x, y \in ToSet(globally_reduced_groups[k]) : y \in Linked({x})

\* Two returned groups, one of them merged from two input groups.
C3_Witness ==
    /\ pc = "reduced"
    /\ Len(globally_reduced_groups) = 2
    /\ Len(InitialWorking(initial_groups)) = 3
    /\ \E k \in DOMAIN globally_reduced_groups : Len(globally_reduced_groups[k]) = 3

\* C4: reducing the returned list again returns the same partition (stated
\* where the reduction returns; the list is not written afterwards).
C4_Idempotent ==
    pc = "reduced" =>
        \A again \in reduce_connection_groups(globally_reduced_groups) :
            /\ {ToSet(again[k]) : k \in DOMAIN again} = ReducedSets
            /\ Len(again) = Len(globally_reduced_groups)

\* A returned list of two groups that came out of a merge.
C4_Witness ==
    /\ pc = "reduced"
    /\ Len(globally_reduced_groups) = 2
    /\ Len(InitialWorking(initial_groups)) = 3
    /\ \E k \in DOMAIN globally_reduced_groups : Len(globally_reduced_groups[k]) >= 2

\* The reduced groups that contain the declared terminal t.
GroupsOf(t) ==
    {k \in DOMAIN globally_reduced_groups : t \in ToSet(globally_reduced_groups[k])}

\* C5: the shorted-to set of every declared terminal is the set of non-pin
\* members, other than the terminal, of the reduced group that holds it; it
\* is empty when no group holds the terminal; the terminal is never in it.
C5_ShortedTo ==
    pc = "done" =>
        \A t \in Range(E2E_PINS) :
            /\ DOMAIN e2e_shorts_map[t]
                   = UNION {{m \in ToSet(globally_reduced_groups[k]) : ~is_pin(m)} \ {t} :
                            k \in GroupsOf(t)}
            /\ GroupsOf(t) = {} => DOMAIN e2e_shorts_map[t] = {}
            /\ t \notin DOMAIN e2e_shorts_map[t]

\* G is in a group with a pin and two other non-pin members, T is in none.
C5_Witness ==
    /\ pc = "done"
    /\ \E k \in GroupsOf(G) : A1 \in ToSet(globally_reduced_groups[k])
    /\ Cardinality(DOMAIN e2e_shorts_map[G]) = 2
    /\ GroupsOf(T) = {}
    /\ DOMAIN e2e_shorts_map[T] = {}

TransientOnly(group) == \A m \in ToSet(group) : ~is_pin(m) => is_p_element(m)
TransientMembers(group) == {m \in ToSet(group) : is_p_element(m)}
ReportedIsolated(group) ==
    \E n \in DOMAIN printable_isolated_groups :
        ToSet(printable_isolated_groups[n]) = {m \in ToSet(group) : ~is_pin(m)}
ConnectedToTerminal(group) ==
    \E m \in ToSet(group) : Linked({m}) \cap Range(E2E_PINS) # {}

\* C6 as stated: a reduced group whose non-pin members are all transient
\* elements (and that has such a member) is reported isolated iff no member
\* is connected to a declared terminal.
C6_AsStated ==
    pc = "done" =>
        \A k \in DOMAIN globally_reduced_groups :
            ( /\ TransientOnly(globally_reduced_groups[k])
              /\ TransientMembers(globally_reduced_groups[k]) # {} ) =>
                ( ReportedIsolated(globally_reduced_groups[k])
                  <=> ~ConnectedToTerminal(globally_reduced_groups[k]) )

\* C6 amended: a reduced group whose non-pin members are all transient is
\* reported isolated iff it holds more than one transient element and no
\* member is connected to a declared terminal; nothing else is reported.
C6_Isolated ==
    pc = "done" =>
        /\ \A k \in DOMAIN globally_reduced_groups :
               TransientOnly(globally_reduced_groups[k]) =>
                   ( ReportedIsolated(globally_reduced_groups[k])
                     <=> /\ Cardinality(TransientMembers(globally_reduced_groups[k])) > 1
                         /\ ~ConnectedToTerminal(globally_reduced_groups[k]) )
        /\ \A n \in DOMAIN printable_isolated_groups :
               \E k \in DOMAIN globally_reduced_groups :
                   /\ TransientOnly(globally_reduced_groups[k])
                   /\ ToSet(printable_isolated_groups[n])
                          = TransientMembers(globally_reduced_groups[k])
                   /\ ~ConnectedToTerminal(globally_reduced_groups[k])

\* One group of two transient elements is reported, while a lone pin group,
\* also without a terminal, and the group of the terminal G are not.
C6_Witness ==
    /\ pc = "done"
    /\ Len(printable_isolated_groups) = 1
    /\ Len(globally_reduced_groups) = 3
    /\ GroupsOf(G) # {}
    /\ \E k \in DOMAIN globally_reduced_groups :
           /\ TransientOnly(globally_reduced_groups[k])
           /\ ~ReportedIsolated(globally_reduced_groups[k])

\* The operations of consolidated_pin_ops are those of the coloured pins.
OpsAreOfPins ==
    \A n \in DOMAIN consolidated_pin_ops :
        \E item \in DictKeys(pin_color_map) :
            /\ is_pin(item)
            /\ consolidated_pin_ops[n]
                   \in Range(PinOps(item, DictGet(pin_color_map, item), map_coords,
                                    state_pins_by_prefix, GLOBAL_CELL_WIDTH))

\* C10: an identifier that is neither a pin nor a terminal element has no
\* entry in the colour maps, is not an observed external element, has no
\* render operation and is in no declared terminal's shorted-to set.
C10_Inert ==
    pc = "done" =>
        /\ OpsAreOfPins
        /\ \A x \in InputIds :
               (~is_pin(x) /\ ~is_external_element(x)) =>
                   /\ x \notin DictKeys(pin_color_map)
                   /\ x \notin DictKeys(external_color_map)
                   /\ x \notin all_unique_external_items
                   /\ \A t \in Range(E2E_PINS) : x \notin DOMAIN e2e_shorts_map[t]

\* The first group, in the order of the priority sort, that holds the item.
FirstGroupWith(groups, item) ==
    LET sorted_groups == StableSort(groups, PriorityRank(groups))
        first == CHOOSE n \in DOMAIN sorted_groups :
                    /\ item \in ToSet(sorted_groups[n])
                    /\ \A m \in 1..(n - 1) : item \notin ToSet(sorted_groups[m])
    IN sorted_groups[first]

\* C9: the entry of every element in the pin-to-colour map and in the
\* external-to-colour map is the colour of the first group, in priority
\* iteration order, that holds the element.
C9_FirstWriteWins ==
    pc = "colored" =>
        \A item \in ReducedIds :
            LET color == GroupToColor(globally_reduced_groups,
                                      FirstGroupWith(globally_reduced_groups, item))
            IN /\ is_pin(item) => DictGet(pin_color_map, item) = color
               /\ ~is_pin(item) => DictGet(external_color_map, item) = color

\* A chart has just been rendered: an individual chart of Part 1 or the
\* chart of Part 2, 2.5 or 3.
JustRendered == pc \in {"rendered", "part2", "part2_5", "part3"}
LastRender ==
    CASE pc = "part2" -> final_lines_part2
      [] pc = "part2_5" -> final_lines_part2_5
      [] pc = "part3" -> final_lines_part3
      [] OTHER -> colored_lines
\* The lines of the last render of the grid `prefix`.
Rendered(prefix) == heap[LastRender[prefix]]
\* The lines a render of `ops` gives when it is the only one on the base.
OnlyRender(prefix, ops) ==
    apply_coloring(<<PaddedGridLines(prefix)>>, 1, OpsByPrefix(ops, prefix))[1]

\* The line with each marker before the character whose index, from 0, in
\* the unmodified line is the marker's column; a marker whose column is the
\* length of the line comes last.
ExpectedLine(line, line_ops) ==
    LET marker(c) ==
            IF \E k \in DOMAIN line_ops : line_ops[k][1] = c
            THEN line_ops[CHOOSE k \in DOMAIN line_ops : line_ops[k][1] = c][2]
            ELSE <<>>
        upto[n \in 0..(Len(line) + 1)] ==
            IF n = 0 THEN <<>>
            ELSE upto[n - 1] \o marker(n - 1)
                 \o (IF n <= Len(line) THEN <<line[n]>> ELSE <<>>)
    IN upto[Len(line) + 1]

DistinctColumns(line_ops) ==
    \A j, k \in DOMAIN line_ops : j # k => line_ops[j][1] # line_ops[k][1]

\* C7: when the columns of the operations of a line differ pairwise, the
\* rendered line is the base line with every marker right before the base
\* character at the marker's column, in any order of the operations.
C7_MarkersInPlace ==
    JustRendered =>
        \A q \in DOMAIN LastRender :
            \A n \in DOMAIN Rendered(q) :
                LET line_ops == OpsByLine(OpsByPrefix(render_ops, q), n - 1)
                IN DistinctColumns(line_ops) =>
                       Rendered(q)[n] = ExpectedLine(PaddedGridLines(q)[n], line_ops)

\* Two markers of different lengths on the pin row, the one of the smaller
\* column first in the list.
C7_Witness ==
    /\ pc = "rendered"
    /\ Len(render_ops) = 2
    /\ render_ops[1][1] = 1 /\ render_ops[2][1] = 1
    /\ render_ops[1][2] < render_ops[2][2]
    /\ Len(render_ops[1][3]) # Len(render_ops[2][3])
    /\ Len(Rendered("A")[2])
           = Len(PaddedGridLines("A")[2]) + Len(render_ops[1][3]) + Len(render_ops[2][3])

\* C8: the base lines of every grid stay the lines generate_ascii_grid and
\* the padding produced, and every render gives what it gives alone.
C8_BaseUnchanged ==
    /\ \A q \in DOMAIN grid_lines : heap[grid_lines[q]] = PaddedGridLines(q)
    /\ JustRendered =>
           \A q \in DOMAIN LastRender : Rendered(q) = OnlyRender(q, render_ops)

\* The chart of Part 3 of a run with a chart in Part 1 and the chart of
\* Part 2.5, each of Parts 1, 2 and 3 with other markers than the one before.
C8_Witness ==
    /\ pc = "part3"
    /\ colored_lines # <<>>
    /\ final_lines_part2_5 # <<>>
    /\ Len(render_ops) = 2
    /\ Rendered("A") # heap[grid_lines["A"]]
    /\ heap[final_lines_part2["A"]] # Rendered("A")
    /\ heap[colored_lines["A"]] # heap[final_lines_part2["A"]]

PairwiseDisjoint(groups) ==
    \A j, k \in DOMAIN groups : j # k => ToSet(groups[j]) \cap ToSet(groups[k]) = {}
PaletteAt(k) == COLORS[((k - 1) % Len(COLORS)) + 1]

\* C11: for pairwise disjoint groups, every pin and every non-pin member of
\* the group at position i of the input list (from 0) has the colour
\* COLORS[i mod len(COLORS)], whatever the place of the group in the
\* priority order.
C11_PaletteByPosition ==
    (pc = "colored" /\ PairwiseDisjoint(globally_reduced_groups)) =>
        \A k \in DOMAIN globally_reduced_groups :
            \A j \in DOMAIN globally_reduced_groups[k] :
                LET item == globally_reduced_groups[k][j]
                IN IF is_pin(item)
                   THEN /\ DictHas(pin_color_map, item)
                        /\ DictGet(pin_color_map, item) = PaletteAt(k)
                   ELSE /\ DictHas(external_color_map, item)
                        /\ DictGet(external_color_map, item) = PaletteAt(k)

\* More groups than palette entries, the last one a terminal's group that the
\* priority order visits first and that takes the colour of the wrapped index.
C11_Witness ==
    /\ pc = "colored"
    /\ Len(globally_reduced_groups) = Len(COLORS) + 2
    /\ globally_reduced_groups[Len(COLORS) + 2] = <<G>>
    /\ DictGet(external_color_map, G) = COLORS[2]
    /\ DictGet(pin_color_map, PinName(Len(COLORS) + 1)) = COLORS[1]
    /\ DictGet(pin_color_map, A1) = COLORS[1]

\* C12: a run on the empty input list ends with a complete empty result: the
\* reduced list and the colour maps are empty, every declared terminal has a
\* report, which is the empty shorted-to set, and no isolated group is
\* reported.
C12_EmptyResult ==
    (initial_groups = <<>> /\ pc \in {"returned", "done"}) =>
        /\ globally_reduced_groups = <<>>
        /\ pin_color_map = <<>>
        /\ external_color_map = <<>>
        /\ \A t \in Range(E2E_PINS) :
               t \in DOMAIN e2e_shorts_map /\ DOMAIN e2e_shorts_map[t] = {}
        /\ printable_isolated_groups = <<>>

\* The run of scenario 1: the input groups {A1, P1+} and {P1+, G}, in either
\* order, after the short summary.
Scenario1 ==
    /\ pc = "done"
    /\ Len(initial_groups) = 2
    /\ InputSets = {{A1, P1plus}, {P1plus, G}}

\* C13 as stated: the two groups reduce to the one group {A1, P1+, G}, G is
\* reported shorted to {A1, P1+} and no isolated group is reported.
C13_AsStated ==
    Scenario1 =>
        /\ ReducedSets = {{A1, P1plus, G}}
        /\ Len(globally_reduced_groups) = 1
        /\ DOMAIN e2e_shorts_map[G] = {A1, P1plus}
        /\ printable_isolated_groups = <<>>

\* C13 amended: the two groups reduce to the one group {A1, P1+, G}, G is
\* reported shorted to {P1+}, the only other non-pin member, T to nothing,
\* and no isolated group is reported.
C13_Scenario ==
    Scenario1 =>
        /\ ReducedSets = {{A1, P1plus, G}}
        /\ Len(globally_reduced_groups) = 1
        /\ DOMAIN e2e_shorts_map[G] = {P1plus}
        /\ DOMAIN e2e_shorts_map[T] = {}
        /\ printable_isolated_groups = <<>>

\* The scenario with the group of the terminal first in the list.
C13_Witness ==
    /\ Scenario1
    /\ ToSet(initial_groups[1]) = {P1plus, G}
    /\ globally_reduced_groups = <<<<G, P1plus, A1>>>>

\* C14: no two distinct cells of a generated grid have the same
\* <<line index, column>>, and every cell of the C x R grid has a coordinate.
C14_Injective ==
    pc = "mapped" =>
        /\ \A a, b \in DOMAIN generated.coord_map :
               a # b => generated.coord_map[a] # generated.coord_map[b]
        /\ Cardinality(DOMAIN generated.coord_map) = grid_args[2] * grid_args[3]

\* A grid of several rows with cell names of two lengths, some longer than
\* the cell is wide.
C14_Witness ==
    /\ pc = "mapped"
    /\ grid_args[2] >= 2 /\ grid_args[3] >= 2
    /\ grid_args[2] * grid_args[3] >= 10
    /\ grid_args[4] = 2
    /\ <<"B", "1", "0">> \in DOMAIN generated.coord_map

\* a is not after b in the order of the pins: by grid prefix, then by number
PinNotAfter(a, b) ==
    \/ Ord(a[1]) < Ord(b[1])
    \/ a[1] = b[1] /\ ParseInt(Tail(a)) <= ParseInt(Tail(b))
\* a is not after b in the alphabetical order that ignores case
NameNotAfter(a, b) ==
    StrUpper(a) = StrUpper(b) \/ StrLess(StrUpper(a), StrUpper(b))

\* C15: in every returned group the non-pin members come first, in
\* alphabetical order ignoring case, and the pins follow, ordered by grid
\* prefix and then by number.
C15_CanonicalOrder ==
    Returned =>
        \A k \in DOMAIN globally_reduced_groups :
            LET g == globally_reduced_groups[k]
            IN \A a, b \in DOMAIN g :
                   a < b =>
                       /\ is_pin(g[a]) => is_pin(g[b])
                       /\ (~is_pin(g[a]) /\ ~is_pin(g[b])) => NameNotAfter(g[a], g[b])
                       /\ (is_pin(g[a]) /\ is_pin(g[b])) => PinNotAfter(g[a], g[b])

\* A group merged from {A10, B1} and {A2, A10}: A2 before A10 before B1.
C15_Witness ==
    /\ pc = "reduced"
    /\ initial_groups = <<<<A10, B1>>, <<A10, A2>>>>
    /\ globally_reduced_groups = <<<<A2, A10, B1>>>>

\* The groups of the list are in ascending order of the priority class and,
\* within a class, of the first member compared without regard to case.
PriorityOrdered(groups) ==
    \A a, b \in DOMAIN groups :
        a < b =>
            \/ group_priority_key(groups[a]) < group_priority_key(groups[b])
            \/ /\ group_priority_key(groups[a]) = group_priority_key(groups[b])
               /\ NameNotAfter(groups[a][1], groups[b][1])

\* C16: the list reduce_connection_groups returned and the order in which
\* calculate_global_colors visits its groups are ascending in the priority
\* class, groups of one class by their first member ignoring case.
C16_PriorityOrder ==
    Returned =>
        /\ PriorityOrdered(globally_reduced_groups)
        /\ PriorityOrdered(StableSort(globally_reduced_groups,
                                      PriorityRank(globally_reduced_groups)))

\* A step of the inner loop that sets the scan index back to 0.
Restart == pc = "inner" /\ pc' = "inner" /\ i' = 0

\* The step takes one group out of the unprocessed list and joins it to the
\* accumulator.
AbsorbsOne ==
    \E k \in DOMAIN working_groups :
        /\ working_groups' = RemoveAt(working_groups, k)
        /\ current_group' = current_group \cup working_groups[k]

\* Every non-empty input group is inside exactly one emitted accumulator.
AccountedOnce ==
    LET inputs == InitialWorking(initial_groups)
    IN \A k \in DOMAIN inputs :
           Cardinality({m \in DOMAIN merged_groups :
                            inputs[k] \subseteq merged_groups[m]}) = 1

LoopFinished ==
    /\ pc = "reduced"
    /\ working_groups = <<>>
    /\ Len(merged_groups) <= Len(InitialWorking(initial_groups))
    /\ AccountedOnce

\* C17: the merge loop of reduce_connection_groups terminates: every step
\* that restarts the scan removes one group from the unprocessed list, and
\* a call that entered the loop leaves it with the unprocessed list empty
\* and every non-empty input group inside exactly one emitted accumulator.
C17_Terminates ==
    /\ [][Restart => AbsorbsOne]_vars
    /\ (pc = "outer") ~> LoopFinished

\* A call that returned after two restarts, the first of them from a scan
\* index past 0: the second group shares nothing with the first.
C17_Witness ==
    /\ pc = "reduced"
    /\ working_groups = <<>>
    /\ Len(InitialWorking(initial_groups)) = 3
    /\ Len(merged_groups) = 1
    /\ InitialWorking(initial_groups)[1] \cap InitialWorking(initial_groups)[2] = {}

\* The candidate isolated groups of the reduced list, as sets of transient
\* elements: all non-pin members transient, no declared terminal, more than
\* one transient element.
CandidateIsolated ==
    {TransientMembers(globally_reduced_groups[k]) :
        k \in {n \in DOMAIN globally_reduced_groups :
                  /\ TransientOnly(globally_reduced_groups[n])
                  /\ Range(E2E_PINS) \cap ToSet(globally_reduced_groups[n]) = {}
                  /\ Cardinality(TransientMembers(globally_reduced_groups[n])) > 1}}

\* C18: after the short summary of a reduced list, no candidate isolated
\* group has a member in the shorted-to set of a declared terminal, and the
\* reported isolated groups are the candidates, one for one.
C18_FilterKeepsAll ==
    pc = "done" =>
        /\ Range(isolated_p_groups) = CandidateIsolated
        /\ \A k \in DOMAIN isolated_p_groups :
               \A t \in Range(E2E_PINS) :
                   isolated_p_groups[k] \cap DOMAIN e2e_shorts_map[t] = {}
        /\ Len(printable_isolated_groups) = Len(isolated_p_groups)
        /\ \A k \in DOMAIN isolated_p_groups :
               ToSet(printable_isolated_groups[k]) = isolated_p_groups[k]

\* A candidate group went through the filter while a declared terminal had
\* a non-empty shorted-to set.
C18_Witness ==
    /\ pc = "done"
    /\ isolated_p_groups # <<>>
    /\ printable_isolated_groups # <<>>
    /\ \E t \in Range(E2E_PINS) : DOMAIN e2e_shorts_map[t] # {}

\* The place of a render operation: grid prefix, line index, column.
OpPlace(op) == <<op[4], op[1], op[2]>>

\* C19: no two render operations of calculate_global_colors have the same
\* grid prefix, line index and column.
C19_NoCollision ==
    pc = "colored" =>
        \A a, b \in DOMAIN consolidated_pin_ops :
            a # b => OpPlace(consolidated_pin_ops[a]) # OpPlace(consolidated_pin_ops[b])

\* Two pins of one row of a grid were coloured: four operations on one line.
C19_Witness ==
    /\ pc = "colored"
    /\ DictHas(pin_color_map, A1)
    /\ DictHas(pin_color_map, A2)
    /\ Cardinality({n \in DOMAIN consolidated_pin_ops :
                        /\ consolidated_pin_ops[n][4] = "A"
                        /\ consolidated_pin_ops[n][1] = map_coords["A"][A1][1]}) = 4

\* The permutations of a sequence.
RECURSIVE PermsOf(_)
PermsOf(s) ==
    IF s = <<>> THEN {<<>>}
    ELSE UNION {{<<s[k]>> \o t : t \in PermsOf(RemoveAt(s, k))} : k \in DOMAIN s}

\* The lists that permute the members of every group of the list.
RECURSIVE MemberPerms(_)
MemberPerms(groups) ==
    IF groups = <<>> THEN {<<>>}
    ELSE {<<h>> \o t : h \in PermsOf(Head(groups)), t \in MemberPerms(Tail(groups))}

\* Every way to list the same connections: the groups in any order, the
\* members of each group in any order.
Listings(groups) == UNION {MemberPerms(p) : p \in PermsOf(groups)}

\* C20: every listing of the input connections gives the list the run
\* returned (groups, member order, list order) and the colours the run gave
\* to the pins and to the external elements.
C20_PermutationInvariant ==
    pc = "colored" =>
        \A l \in Listings(initial_groups) :
            \A r \in reduce_connection_groups(l) :
                /\ r = globally_reduced_groups
                /\ LET res == calculate_global_colors(r, map_coords, state_pins_by_prefix,
                                                      GLOBAL_CELL_WIDTH)
                   IN /\ res.pin_color_map = pin_color_map
                      /\ res.external_color_map = external_color_map

====
